---- MODULE Spec2Model ----
(***************************************************************************)
(* The step-execution engine of backend/app/core: WorkflowEngine.execute   *)
(* (an async generator), the WorkflowExecution it drives, the              *)
(* ExecutionContext of the run, BaseSkill.run with its retry loop, and the *)
(* pause / resume / cancel calls that other tasks make while the generator *)
(* is suspended.                                                           *)
(*                                                                         *)
(* One action is one atomic segment of the generator: the code between two *)
(* suspension points (a yield, or an await that really suspends).  asyncio *)
(* is single threaded, so other tasks run only at those points.            *)
(***************************************************************************)
EXTENDS Integers, Sequences, FiniteSets, TLC

VARIABLES
    executions,     \* WorkflowEngine._executions: execution_id -> WorkflowExecution
    gen,            \* the frame of each execute(...) generator
    events,         \* the updates each generator has yielded to its consumer
    history,        \* what has happened to each run so far (read by no action)
    workflows,      \* AgentOrchestrator._workflows: name -> WorkflowDefinition
    returned,       \* what the latest call of handle_interrupt returned or raised
    registered      \* the calls of register_workflow so far (read by no action):
                    \* last, the definition each name was registered with
                    \* last; replaced, the definitions registered earlier
                    \* under a name that was then registered with another

vars == <<executions, gen, events, history, workflows, returned, registered>>

(***************************************************************************)
(* Values                                                                  *)
(***************************************************************************)
None == "None"              \* Python's None

\* Bound: iterations of the step loop that reach a step_started yield per run.
MaxIter == 2

\* BaseSkill.retry_count, the class default the skills below inherit.
retry_count == 3

RunIds == {"r1", "r2"}      \* execution ids; execute() is called for r1 only
Started == {"r1"}

StepNames == {"A", "B", "C"}

\* WorkflowStatus
PENDING == "pending"
RUNNING == "running"
PAUSED == "paused"
COMPLETED == "completed"
FAILED == "failed"
CANCELLED == "cancelled"
WorkflowStatus == {PENDING, RUNNING, PAUSED, COMPLETED, FAILED, CANCELLED}

(***************************************************************************)
(* Pure helpers                                                            *)
(***************************************************************************)
Last(s) == s[Len(s)]

RECURSIVE Flatten(_)
Flatten(ss) == IF ss = <<>> THEN <<>> ELSE Head(ss) \o Flatten(Tail(ss))

Map(f(_), s) == [i \in 1..Len(s) |-> f(s[i])]

Range(s) == {s[i] : i \in 1..Len(s)}

\* dict[key] = value
Put(d, k, v) == [x \in (DOMAIN d) \cup {k} |-> IF x = k THEN v ELSE d[x]]

EmptyDict == [k \in {} |-> None]

(***************************************************************************)
(* SkillRegistry._skills: the registered skill classes.  execute() is      *)
(* abstract in BaseSkill; each class here fixes what its execute may do in *)
(* one attempt: "return" one of its outputs, "raise", or "hang" past the   *)
(* deadline that asyncio.wait_for enforces.  retry_count, input_schema and *)
(* output_schema are the class attributes: ok and slow inherit BaseSkill's *)
(* retry_count, the others override it; needy declares a required and an   *)
(* optional input field; sloppy and broken declare a required and an       *)
(* optional output field, and execute of sloppy may return an output       *)
(* without the required field, execute of broken always does.              *)
(***************************************************************************)
\* What execute() of the skill returns when its output is complete
Output(skill_name) == Put(EmptyDict, "result", skill_name)

\* An output without the field "result"
Partial == Put(EmptyDict, "note", "partial")

Skill(rc, attempt, input_schema, output_schema, outputs) ==
    [retry_count |-> rc, attempt |-> attempt, input_schema |-> input_schema,
     output_schema |-> output_schema, outputs |-> outputs]

Required == [required |-> TRUE]

Optional == [required |-> FALSE]

SkillRegistry ==
    [ok     |-> Skill(retry_count, {"return"}, EmptyDict, EmptyDict, {Output("ok")}),
     fail   |-> Skill(1, {"raise"}, EmptyDict, EmptyDict, {}),
     slow   |-> Skill(retry_count, {"hang"}, EmptyDict, EmptyDict, {}),
     flaky  |-> Skill(1, {"return", "raise", "hang"}, EmptyDict, EmptyDict,
                      {Output("flaky")}),
     needy  |-> Skill(1, {"return"}, [query |-> Required, limit |-> Optional],
                      EmptyDict, {Output("needy")}),
     sloppy |-> Skill(1, {"return"}, EmptyDict,
                      [result |-> Required, note |-> Optional],
                      {Output("sloppy"), Partial}),
     broken |-> Skill(1, {"return"}, EmptyDict,
                      [result |-> Required, note |-> Optional], {Partial})]

\* BaseSkill.validate_input
validate_input(input_schema, data) ==
    \A field \in DOMAIN input_schema :
        ~(input_schema[field].required /\ field \notin DOMAIN data)

\* Mutant of validate_output: any output is accepted.
validate_output_Lenient(output_schema, data) == TRUE

\* BaseSkill.validate_output
validate_output(output_schema, data) ==
    \A field \in DOMAIN output_schema :
        ~(output_schema[field].required /\ field \notin DOMAIN data)

\* SkillRegistry.get(name) is not None
Registered(name) == name \in DOMAIN SkillRegistry

(***************************************************************************)
(* StepDefinition, Transition, WorkflowDefinition                          *)
(***************************************************************************)
\* condition_expression is the sequence of the characters of the str; the
\* empty sequence stands for None and for "", which the code does not tell
\* apart (`if step.condition_expression:`)
StepDefinition(n, sk, cond, of, mr) ==
    [name |-> n, skill_name |-> sk, condition |-> cond, condition_expression |-> <<>>,
     max_retries |-> mr, on_failure_action |-> of]

Transition(f, t) == [from_step |-> f, to_step |-> t, condition |-> None]

WorkflowDefinition(st, tr) == [name |-> "main", steps |-> st, transitions |-> tr]

FailureActions == {None, "stop", "skip"}

\* One step, with or without a transition to the END sentinel.
SingleStep ==
    { WorkflowDefinition(<<StepDefinition("A", sk, cond, of, 3)>>, tr) :
        sk \in {"ok", "fail", "slow", "flaky"},
        cond \in {"always", "on_success"},
        of \in FailureActions \cup {"continue"},
        tr \in {<<>>, <<Transition("A", "END")>>} }

\* A failing step whose StepDefinition.max_retries is not the default.
FewRetries ==
    { WorkflowDefinition(<<StepDefinition("A", "fail", "always", of, 1)>>, <<>>) :
        of \in FailureActions }

\* A -> B -> C with unconditional transitions.
Linear ==
    { WorkflowDefinition(
        <<StepDefinition("A", "ok", "always", ofA, 3),
          StepDefinition("B", skB, "always", ofB, 3),
          StepDefinition("C", "ok", "always", None, 3)>>,
        <<Transition("A", "B"), Transition("B", "C")>>) :
        skB \in {"ok", "fail"}, ofA \in FailureActions, ofB \in FailureActions }

\* Steps whose first step has no outgoing transition.
Loose ==
    { WorkflowDefinition(
        <<StepDefinition("A", sk, "always", of, 3),
          StepDefinition("B", "ok", "on_failure", None, 3)>>,
        <<Transition("B", "END")>>) :
        sk \in {"ok", "fail"}, of \in FailureActions }

\* Definitions that validate_definition rejects.
Invalid ==
    { WorkflowDefinition(<<StepDefinition("A", "nonexistent", "always", None, 3)>>, <<>>),
      WorkflowDefinition(<<StepDefinition("A", "ok", "always", None, 3),
                           StepDefinition("A", "ok", "always", None, 3)>>, <<>>),
      WorkflowDefinition(<<StepDefinition("A", "ok", "always", None, 3)>>,
                         <<Transition("X", "A")>>),
      WorkflowDefinition(<<StepDefinition("A", "ok", "always", None, 3)>>,
                         <<Transition("A", "X")>>),
      WorkflowDefinition(<<StepDefinition("A", "ok", "always", None, 3),
                           StepDefinition("B", "nonexistent", "always", "skip", 3)>>,
                         <<Transition("A", "B"), Transition("Y", "X")>>) }

\* START is accepted by validation as an endpoint although it is no step.
Sentinels ==
    { WorkflowDefinition(<<StepDefinition("A", "ok", "always", None, 3)>>, <<tr>>) :
        tr \in {Transition("START", "A"), Transition("A", "START"),
                Transition("END", "A")} }

\* One step whose skill declares an input_schema or an output_schema.
Schemas ==
    { WorkflowDefinition(<<StepDefinition("A", sk, "always", of, 3)>>, <<>>) :
        sk \in {"needy", "sloppy", "broken"}, of \in FailureActions }

Workflows ==
    SingleStep \cup FewRetries \cup Linear \cup Loose \cup Invalid \cup Sentinels
    \cup Schemas

\* initial_state["input_data"] of a run: empty, or with the field "query"
InputData == {EmptyDict, Put(EmptyDict, "query", "shoes")}

Names(workflow) == [i \in 1..Len(workflow.steps) |-> workflow.steps[i].name]

(***************************************************************************)
(* WorkflowEngine.validate_definition: the list of errors, in the order    *)
(* the code appends them.                                                  *)
(***************************************************************************)
\* Mutant of validate_definition: the check that step names are unique is
\* left out.
validate_definition_NoUniqueCheck(workflow) ==
    LET step_names_set == Range(Names(workflow)) \cup {"START", "END"}
        skillError(step) ==
            IF ~Registered(step.skill_name)
            THEN <<<<"unknown skill", step.name, step.skill_name>>>> ELSE <<>>
        transitionError(t) ==
            (IF t.from_step \notin step_names_set
             THEN <<<<"Transition from unknown step", t.from_step>>>> ELSE <<>>)
            \o
            (IF t.to_step \notin step_names_set /\ t.to_step # "END"
             THEN <<<<"Transition to unknown step", t.to_step>>>> ELSE <<>>)
    IN  Flatten(Map(skillError, workflow.steps))
        \o Flatten(Map(transitionError, workflow.transitions))

validate_definition(workflow) ==
    LET step_names == Names(workflow)
        step_names_set == Range(step_names) \cup {"START", "END"}
        skillError(step) ==
            IF ~Registered(step.skill_name)
            THEN <<<<"unknown skill", step.name, step.skill_name>>>> ELSE <<>>
        uniqueError ==
            IF Len(step_names) # Cardinality(Range(step_names))
            THEN <<<<"Step names must be unique">>>> ELSE <<>>
        transitionError(t) ==
            (IF t.from_step \notin step_names_set
             THEN <<<<"Transition from unknown step", t.from_step>>>> ELSE <<>>)
            \o
            (IF t.to_step \notin step_names_set /\ t.to_step # "END"
             THEN <<<<"Transition to unknown step", t.to_step>>>> ELSE <<>>)
    IN  Flatten(Map(skillError, workflow.steps))
        \o uniqueError
        \o Flatten(Map(transitionError, workflow.transitions))

(***************************************************************************)
(* The execution graph that execute() builds (lines 341-351).              *)
(***************************************************************************)
\* step_map = {s.name: s for s in workflow.steps}: the last step of a name wins
step_map(workflow) ==
    [n \in Range(Names(workflow)) |->
        LET i == CHOOSE i \in 1..Len(workflow.steps) :
                    /\ workflow.steps[i].name = n
                    /\ \A j \in (i+1)..Len(workflow.steps) : workflow.steps[j].name # n
        IN  workflow.steps[i]]

\* transition_map[from_step] is the list of the to_step names: the code appends
\* transition.to_step, a str, not the Transition.
build_transition_map(workflow) ==
    LET keys == Range(Names(workflow))
                \cup {workflow.transitions[i].from_step : i \in 1..Len(workflow.transitions)}
        toStep(t) == t.to_step
    IN  [k \in keys |->
            Map(toStep, SelectSeq(workflow.transitions, LAMBDA t : t.from_step = k))]

(***************************************************************************)
(* WorkflowEngine._get_next_step.  The result is [raised, value]: the loop *)
(* reads transition.condition of every element of the list, and the        *)
(* elements are the str objects stored by build_transition_map, which have *)
(* no such attribute, so a non-empty list raises AttributeError before any *)
(* to_step is returned.  An empty list returns None.                       *)
(***************************************************************************)
get_next_step(current_step, transition_map) ==
    LET transitions == IF current_step \in DOMAIN transition_map
                       THEN transition_map[current_step] ELSE <<>>
    IN  IF transitions = <<>>
        THEN [raised |-> FALSE, value |-> None]
        ELSE [raised |-> TRUE, value |-> "AttributeError"]

(***************************************************************************)
(* Python str values.  A str is written here as a TLA+ string; where the   *)
(* code looks inside one (strip, split, replace, `in`), it is the sequence *)
(* of its characters, Text(s).  None is the string "None", which is also   *)
(* what str(None) returns.                                                 *)
(***************************************************************************)
\* The characters of the strings that occur in expressions and in
\* shared_state; any other string is a single character
Text(s) ==
    CASE s = ""         -> <<>>
      [] s = "state."   -> <<"s", "t", "a", "t", "e", ".">>
      [] s = "tier"     -> <<"t", "i", "e", "r">>
      [] s = "missing"  -> <<"m", "i", "s", "s", "i", "n", "g">>
      [] s = "gold"     -> <<"g", "o", "l", "d">>
      [] s = "silver"   -> <<"s", "i", "l", "v", "e", "r">>
      [] s = "None"     -> <<"N", "o", "n", "e">>
      [] s = "a==b"     -> <<"a", "=", "=", "b">>
      [] s = "=="       -> <<"=", "=">>
      [] s = "!="       -> <<"!", "=">>
      [] s = " in "     -> <<" ", "i", "n", " ">>
      [] s = " contains " -> <<" ", "c", "o", "n", "t", "a", "i", "n", "s", " ">>
      [] OTHER          -> <<s>>

\* The characters of the concatenation of the strings
Cat(strings) == Flatten(Map(Text, strings))

\* str(value)
str(value) == Text(value)

Whitespace == {" "}

Quotes == {"\"", "'"}

RECURSIVE lstrip(_, _)
lstrip(s, chars) ==
    IF s # <<>> /\ Head(s) \in chars THEN lstrip(Tail(s), chars) ELSE s

RECURSIVE rstrip(_, _)
rstrip(s, chars) ==
    IF s # <<>> /\ Last(s) \in chars
    THEN rstrip(SubSeq(s, 1, Len(s) - 1), chars) ELSE s

\* s.strip() with chars = Whitespace, s.strip('"\'') with chars = Quotes
strip(s, chars) == rstrip(lstrip(s, chars), chars)

\* s.find(sub) + 1: where sub first occurs in s, 0 if it does not
find(s, sub) ==
    LET hits == {i \in 1..(Len(s) - Len(sub) + 1) :
                    SubSeq(s, i, i + Len(sub) - 1) = sub}
    IN  IF hits = {} THEN 0 ELSE CHOOSE i \in hits : \A j \in hits : i <= j

\* sub in s
contains(s, sub) == find(s, sub) # 0

\* s.split(sep, 1), for a sep that occurs in s
split1(s, sep) ==
    LET i == find(s, sep)
    IN  <<SubSeq(s, 1, i - 1), SubSeq(s, i + Len(sep), Len(s))>>

\* s.split(sep)
RECURSIVE split(_, _)
split(s, sep) ==
    LET i == find(s, sep)
    IN  IF i = 0 THEN <<s>>
        ELSE <<SubSeq(s, 1, i - 1)>> \o split(SubSeq(s, i + Len(sep), Len(s)), sep)

\* s.replace(old, "")
RECURSIVE remove(_, _)
remove(s, old) ==
    LET i == find(s, old)
    IN  IF i = 0 THEN s
        ELSE SubSeq(s, 1, i - 1) \o remove(SubSeq(s, i + Len(old), Len(s)), old)

\* ExecutionContext.get_state(key, default), for a key given by its characters
get_state(context, key, default) ==
    LET found == {k \in DOMAIN context.shared_state : Text(k) = key}
    IN  IF found = {} THEN default
        ELSE context.shared_state[CHOOSE k \in found : TRUE]

(***************************************************************************)
(* WorkflowEngine._evaluate_condition, on the characters of a str          *)
(* expression.  No branch raises on a str; the except clause of the code   *)
(* is for expressions of another type.                                     *)
(***************************************************************************)
evaluate_condition(expression, context) ==
    LET expr == strip(expression, Whitespace)
        Key(parts) == remove(strip(parts[1], Whitespace), Text("state."))
        Value(v) == strip(strip(v, Whitespace), Quotes)
    IN  IF contains(expr, Text("=="))
        THEN LET parts == split1(expr, Text("=="))
             IN  str(get_state(context, Key(parts), None)) = Value(parts[2])
        ELSE IF contains(expr, Text("!="))
        THEN LET parts == split1(expr, Text("!="))
             IN  str(get_state(context, Key(parts), None)) # Value(parts[2])
        ELSE IF contains(expr, Text(" in "))
        THEN LET parts == split1(expr, Text(" in "))
                 inner == strip(parts[2], Whitespace)
                 values == Map(Value, split(SubSeq(inner, 2, Len(inner) - 1), <<",">>))
             IN  str(get_state(context, Key(parts), None)) \in Range(values)
        ELSE IF contains(expr, Text(" contains "))
        THEN LET parts == split1(expr, Text(" contains "))
             IN  contains(str(get_state(context, Key(parts), "")), Value(parts[2]))
        ELSE FALSE

(***************************************************************************)
(* WorkflowEngine._should_execute_step                                     *)
(***************************************************************************)
should_execute_step(step, execution) ==
    CASE step.condition = "always"     -> TRUE
      [] step.condition = "on_success" -> execution.completed_steps # <<>>
      [] step.condition = "on_failure" -> execution.failed_steps # <<>>
      [] step.condition = "on_skip"    -> execution.paused_steps # <<>>
      [] step.condition = "custom"     ->
            IF step.condition_expression # <<>>
            THEN evaluate_condition(step.condition_expression, execution.context)
            ELSE TRUE
      [] OTHER                         -> TRUE

(***************************************************************************)
(* ExecutionContext (context.py)                                           *)
(***************************************************************************)
\* ExecutionContext(...): the dataclass defaults
NewContext ==
    [status |-> "running", step_history |-> <<>>, input_data |-> EmptyDict,
     output_data |-> EmptyDict, shared_state |-> EmptyDict]

add_step(context, step_name) ==
    [context EXCEPT !.step_history = Append(@, step_name)]

\* Mutant of set_output: every output is stored under the one key "output".
set_output_OneKey(context, key, value) ==
    [context EXCEPT !.output_data = Put(@, "output", value)]

set_output(context, key, value) ==
    [context EXCEPT !.output_data = Put(@, key, value)]

set_state(context, key, value) ==
    [context EXCEPT !.shared_state = Put(@, key, value)]

set_error(context) == [context EXCEPT !.status = "failed"]

context_complete(context) == [context EXCEPT !.status = "completed"]

context_pause(context) == [context EXCEPT !.status = "paused"]

context_resume(context) == [context EXCEPT !.status = "running"]

(***************************************************************************)
(* WorkflowExecution (workflow_engine.py)                                  *)
(***************************************************************************)
\* WorkflowExecution.__init__ with an initial_state that has no input_data
NewExecution ==
    [status |-> PENDING, current_step |-> None,
     completed_steps |-> <<>>, failed_steps |-> <<>>, paused_steps |-> <<>>,
     pause_event |-> FALSE, cancel_event |-> FALSE,
     context |-> NewContext]

\* WorkflowExecution.__init__: context.input_data and context.shared_state
\* are the entries of initial_state
WorkflowExecution(input_data, shared_state) ==
    [NewExecution EXCEPT !.context.input_data = input_data,
                         !.context.shared_state = shared_state]

start(execution) == [execution EXCEPT !.status = RUNNING]

complete(execution) ==
    [execution EXCEPT !.status = COMPLETED, !.context = context_complete(@)]

fail(execution) ==
    [execution EXCEPT !.status = FAILED, !.context = set_error(@)]

pause(execution) ==
    [execution EXCEPT !.status = PAUSED, !.context = context_pause(@)]

resume(execution) ==
    [execution EXCEPT !.status = RUNNING, !.context = context_resume(@),
                      !.pause_event = TRUE]

cancel(execution) ==
    [execution EXCEPT !.status = CANCELLED, !.cancel_event = TRUE]

is_cancelled(execution) == execution.cancel_event

(***************************************************************************)
(* BaseSkill lifecycle hooks (skill_base.py)                               *)
(***************************************************************************)
on_start(skill_name, context) == add_step(context, <<skill_name, "start">>)

on_success(skill_name, context) == add_step(context, <<skill_name, "success">>)

on_failure(skill_name, context) ==
    set_error(add_step(context, <<skill_name, "failed">>))

(***************************************************************************)
(* The generator execute(workflow, initial_state, execution_id).           *)
(*                                                                         *)
(* Its frame: pc, the suspension point it is at; workflow, its argument;   *)
(* input_data and shared_state, the entries of its argument initial_state; *)
(* current_step_name, the local of the loop; attempt and output, the       *)
(* locals of BaseSkill.run; iter, the number of step_started yields so     *)
(* far.                                                                    *)
(* A segment is [x, g, ev]: the execution, the frame and the update        *)
(* yielded when the generator suspends next.                               *)
(***************************************************************************)
Update(type, step) == [type |-> type, step |-> step, errors |-> <<>>]

ErrorUpdate(errors) == [type |-> "error", step |-> None, errors |-> errors]

Segment(x, g, ev) == [x |-> x, g |-> g, ev |-> ev]

\* Lines 483-490: execution.complete() and the "completed" yield
MarkCompleted(x, g) ==
    Segment(complete(x), [g EXCEPT !.pc = "y_completed"], <<Update("completed", None)>>)

\* Lines 493-499: the outer except Exception
OuterExcept(x, g) ==
    Segment(fail(x), [g EXCEPT !.pc = "y_error"], <<ErrorUpdate(<<>>)>>)

\* Mutant of LoopTop: the iteration does not look at the cancellation flag.
LoopTop_NoCancelCheck(x, g) ==
    LET current_step_name == g.current_step_name
        steps == step_map(g.workflow)
    IN  IF current_step_name = None \/ current_step_name \notin DOMAIN steps
        THEN MarkCompleted(x, g)
        ELSE LET step == steps[current_step_name]
                 x1 == [x EXCEPT !.current_step = current_step_name]
             IN  IF ~should_execute_step(step, x1)
                 THEN Segment([x1 EXCEPT !.paused_steps = Append(@, current_step_name)],
                              [g EXCEPT !.pc = "y_step_skipped"],
                              <<Update("step_skipped", current_step_name)>>)
                 ELSE Segment(x1, [g EXCEPT !.pc = "y_step_started", !.iter = @ + 1],
                              <<Update("step_started", current_step_name)>>)

\* Lines 366-403: from the top of the while loop to the next yield
LoopTop(x, g) ==
    LET current_step_name == g.current_step_name
        steps == step_map(g.workflow)
    IN  IF current_step_name = None
        THEN MarkCompleted(x, g)
        ELSE IF is_cancelled(x)
        THEN Segment(cancel(x), [g EXCEPT !.pc = "y_cancelled"],
                     <<Update("cancelled", None)>>)
        ELSE IF current_step_name \notin DOMAIN steps
        THEN MarkCompleted(x, g)
        ELSE LET step == steps[current_step_name]
                 x1 == [x EXCEPT !.current_step = current_step_name]
             IN  IF ~should_execute_step(step, x1)
                 THEN Segment([x1 EXCEPT !.paused_steps = Append(@, current_step_name)],
                              [g EXCEPT !.pc = "y_step_skipped"],
                              <<Update("step_skipped", current_step_name)>>)
                 ELSE Segment(x1, [g EXCEPT !.pc = "y_step_started", !.iter = @ + 1],
                              <<Update("step_started", current_step_name)>>)

\* Lines 466-481: the pause check that ends an iteration
PauseCheck(x, g) ==
    IF x.status = PAUSED
    THEN Segment(x, [g EXCEPT !.pc = "y_paused"],
                 <<Update("paused", g.current_step_name)>>)
    ELSE LoopTop(x, g)

\* Lines 451-458 (and 437-443): the handlers' first half, up to their yield
StepFailed(x, g, type) ==
    Segment([x EXCEPT !.failed_steps = Append(@, g.current_step_name)],
            [g EXCEPT !.pc = IF type = "step_timeout" THEN "y_step_timeout"
                                                       ELSE "y_step_failed"],
            <<Update(type, g.current_step_name)>>)

\* The suspension points of the generator
PCs == {"new", "y_error_invalid", "y_started", "y_cancelled", "y_step_skipped",
        "y_step_started", "y_error_skill", "execute", "sleep", "y_step_completed",
        "y_step_timeout", "y_step_failed", "y_paused", "wait_for_resume",
        "y_resumed", "y_completed", "y_error", "done"}

(***************************************************************************)
(* History of a run, kept for the properties only:                         *)
(*   execute_calls[s]  how often execute() of step s's skill was invoked   *)
(*   signalled         pause or cancel has been called                     *)
(*   resume_called     resume was called since "paused" was last yielded   *)
(*   pause_in_step     pause was called after the latest step_started      *)
(*                     yield and before that step's unit of work ended,    *)
(*                     and neither resume nor cancel was called since      *)
(*   cancel_live       cancel was called after "started" was yielded and   *)
(*                     before the final update of the run                  *)
(*   cancel_in_unit    cancel was called while a unit of work was in       *)
(*                     flight                                              *)
(*   replaced_before   the definitions that had been replaced in the       *)
(*                     orchestrator's table when the run was started       *)
(*   started_with      the definition last registered under the name the   *)
(*                     run was started with by execute_workflow            *)
(***************************************************************************)
NewHistory ==
    [execute_calls |-> [n \in StepNames |-> 0], signalled |-> FALSE,
     resume_called |-> FALSE, pause_in_step |-> FALSE, cancel_live |-> FALSE,
     cancel_in_unit |-> FALSE,
     replaced_before |-> {}, started_with |-> {}]

\* The history after a segment r of the generator
Record(h, r) ==
    LET type == IF r.ev = <<>> THEN None ELSE r.ev[1].type
    IN  [h EXCEPT
           !.execute_calls =
               IF r.g.pc = "execute"
               THEN [@ EXCEPT ![r.g.current_step_name] = @ + 1] ELSE @,
           !.resume_called = IF type = "paused" THEN FALSE ELSE @,
           !.pause_in_step = IF type = "step_started" THEN FALSE ELSE @]

\* The history after a call of pause / resume / cancel
RecordCall(h, call, pc) ==
    [h EXCEPT
       !.signalled = @ \/ call \in {"pause", "cancel"},
       !.resume_called = IF call = "resume" THEN TRUE ELSE @,
       !.pause_in_step =
           IF call = "pause"
           THEN @ \/ pc \in {"y_step_started", "execute", "sleep"}
           ELSE FALSE,
       !.cancel_live =
           @ \/ (call = "cancel" /\ pc \notin {"y_completed", "y_error", "done"}),
       !.cancel_in_unit = @ \/ (call = "cancel" /\ pc \in {"execute", "sleep"})]

\* The segment ends suspended; the model follows a run for MaxIter iterations.
Commit(e, r) ==
    /\ r.g.iter <= MaxIter
    /\ executions' = Put(executions, e, r.x)
    /\ gen' = [gen EXCEPT ![e] = r.g]
    /\ events' = [events EXCEPT ![e] = @ \o r.ev]
    /\ history' = [history EXCEPT ![e] = Record(@, r)]
    /\ UNCHANGED <<workflows, returned, registered>>

At(e, pc) == e \in DOMAIN gen /\ gen[e].pc = pc

CurrentStep(e) == step_map(gen[e].workflow)[gen[e].current_step_name]

TransitionMap(e) == build_transition_map(gen[e].workflow)

(***************************************************************************)
(* The segments of execute(), one action each                              *)
(***************************************************************************)
\* Mutant of Execute: the execution is created and started before the
\* definition is validated, and the errors are only reported.
Execute_Unvalidated(e) ==
    /\ At(e, "new")
    /\ LET errors == validate_definition(gen[e].workflow)
       IN  Commit(e, Segment(start(WorkflowExecution(gen[e].input_data, gen[e].shared_state)),
                             [gen[e] EXCEPT !.pc = IF errors # <<>>
                                                   THEN "y_error_invalid"
                                                   ELSE "y_started"],
                             IF errors # <<>>
                             THEN <<ErrorUpdate(errors)>>
                             ELSE <<Update("started", None)>>))

\* Lines 327-359: validate, then either yield the errors and return, or
\* create the execution, store it, start it and yield "started".
Execute(e) ==
    /\ At(e, "new")
    /\ LET errors == validate_definition(gen[e].workflow)
       IN  IF errors # <<>>
           THEN /\ gen' = [gen EXCEPT ![e].pc = "y_error_invalid"]
                /\ events' = [events EXCEPT ![e] = Append(@, ErrorUpdate(errors))]
                /\ UNCHANGED <<executions, history, workflows, returned, registered>>
           ELSE Commit(e, Segment(start(WorkflowExecution(gen[e].input_data, gen[e].shared_state)),
                                  [gen[e] EXCEPT !.pc = "y_started"],
                                  <<Update("started", None)>>))

\* Line 335: return after the error yield
AfterInvalid(e) ==
    /\ At(e, "y_error_invalid")
    /\ gen' = [gen EXCEPT ![e].pc = "done"]
    /\ UNCHANGED <<executions, events, history, workflows, returned, registered>>

\* Lines 360-364: the first step, then the loop
AfterStarted(e) ==
    /\ At(e, "y_started")
    /\ LET steps == gen[e].workflow.steps
           first == IF steps # <<>> THEN steps[1].name ELSE None
       IN  Commit(e, LoopTop(executions[e],
                             [gen[e] EXCEPT !.current_step_name = first]))

\* Lines 375-376 and 414-415, then 483-490: break out of the loop, into "Mark
\* as completed"; after the error yield for a skill that create_instance did
\* not find, the run is failed first.
Break(e) ==
    /\ At(e, "y_cancelled") \/ At(e, "y_error_skill")
    /\ Commit(e, MarkCompleted(IF gen[e].pc = "y_error_skill"
                                THEN fail(executions[e]) ELSE executions[e],
                                gen[e]))

\* Mutant of AfterStepSkipped: the skipped step falls through to the pause
\* check instead of continuing the loop.
AfterStepSkipped_PauseChecked(e) ==
    /\ At(e, "y_step_skipped")
    /\ LET next == get_next_step(gen[e].current_step_name, TransitionMap(e))
       IN  Commit(e, IF next.raised
                     THEN OuterExcept(executions[e], gen[e])
                     ELSE PauseCheck(executions[e],
                                     [gen[e] EXCEPT !.current_step_name = next.value]))

\* Lines 394-395: the next step of a skipped step, then continue
AfterStepSkipped(e) ==
    /\ At(e, "y_step_skipped")
    /\ LET next == get_next_step(gen[e].current_step_name, TransitionMap(e))
       IN  Commit(e, IF next.raised
                     THEN OuterExcept(executions[e], gen[e])
                     ELSE LoopTop(executions[e],
                                  [gen[e] EXCEPT !.current_step_name = next.value]))

\* skill_base.py 241-250, then lines 451-458: an attempt has failed; run()
\* either sleeps before the next attempt or calls on_failure and re-raises,
\* and the engine yields step_failed
AttemptFailed(x, g) ==
    LET skill_name == step_map(g.workflow)[g.current_step_name].skill_name
    IN  IF g.attempt < SkillRegistry[skill_name].retry_count
        THEN Segment(x, [g EXCEPT !.pc = "sleep"], <<>>)
        ELSE StepFailed([x EXCEPT !.context = on_failure(skill_name, @)],
                        g, "step_failed")

\* Mutant of AfterStepStarted: run() calls on_start and execute without
\* validating the input first.
AfterStepStarted_NoInputCheck(e) ==
    /\ At(e, "y_step_started")
    /\ LET step == CurrentStep(e)
           x == executions[e]
       IN  Commit(e, IF ~Registered(step.skill_name)
                     THEN Segment(x, [gen[e] EXCEPT !.pc = "y_error_skill"],
                                  <<ErrorUpdate(<<>>)>>)
                     ELSE Segment([x EXCEPT !.context = on_start(step.skill_name, @)],
                                  [gen[e] EXCEPT !.pc = "execute", !.attempt = 0],
                                  <<>>))

\* Lines 404-420 and skill_base.py 220-231: create the skill, enter run(),
\* validate the input (a ValueError of run goes to "except Exception", lines
\* 451-458), call on_start and the first execute()
AfterStepStarted(e) ==
    /\ At(e, "y_step_started")
    /\ LET step == CurrentStep(e)
           x == executions[e]
       IN  Commit(e, IF ~Registered(step.skill_name)
                     THEN Segment(x, [gen[e] EXCEPT !.pc = "y_error_skill"],
                                  <<ErrorUpdate(<<>>)>>)
                     ELSE IF ~validate_input(SkillRegistry[step.skill_name].input_schema,
                                             x.context.input_data)
                     THEN StepFailed(x, gen[e], "step_failed")
                     ELSE Segment([x EXCEPT !.context = on_start(step.skill_name, @)],
                                  [gen[e] EXCEPT !.pc = "execute", !.attempt = 0],
                                  <<>>))

\* skill_base.py 231-239, then lines 422-431: execute() returns an output;
\* if validate_output accepts it, run() calls on_success and returns it, the
\* engine stores it and yields step_completed; if not, run() raises
\* ValueError inside its try and the attempt has failed
ExecuteReturns(e) ==
    /\ At(e, "execute")
    /\ LET step == CurrentStep(e)
           skill == SkillRegistry[step.skill_name]
           x == executions[e]
       IN  /\ "return" \in skill.attempt
           /\ \E output \in skill.outputs :
                 LET g == [gen[e] EXCEPT !.output = output]
                 IN  Commit(e,
                       IF validate_output(skill.output_schema, output)
                       THEN Segment(
                              [x EXCEPT !.context =
                                            set_output(on_success(step.skill_name, @),
                                                       step.name, output),
                                        !.completed_steps = Append(@, step.name)],
                              [g EXCEPT !.pc = "y_step_completed"],
                              <<Update("step_completed", step.name)>>)
                       ELSE AttemptFailed(x, g))

\* skill_base.py 241-250, then lines 451-458: execute() raises
ExecuteRaises(e) ==
    /\ At(e, "execute")
    /\ "raise" \in SkillRegistry[CurrentStep(e).skill_name].attempt
    /\ Commit(e, AttemptFailed(executions[e], gen[e]))

\* skill_base.py 246, 229-231: the backoff sleep ends, the next attempt starts
BackoffDone(e) ==
    /\ At(e, "sleep")
    /\ Commit(e, Segment(executions[e],
                          [gen[e] EXCEPT !.pc = "execute", !.attempt = @ + 1], <<>>))

\* Lines 420, 437-443: the deadline of wait_for passes while run() is
\* suspended; run() is cancelled without reaching its except clause
Deadline(e) ==
    /\ At(e, "execute") \/ At(e, "sleep")
    /\ "hang" \in SkillRegistry[CurrentStep(e).skill_name].attempt
    /\ Commit(e, StepFailed(executions[e], gen[e], "step_timeout"))

\* Lines 432-435, 466: after the step_completed yield the next step is looked
\* up inside the inner try, so an exception of the lookup is handled by
\* "except Exception" (lines 451-458) as a failure of the step
AfterStepCompleted(e) ==
    /\ At(e, "y_step_completed")
    /\ LET next == get_next_step(gen[e].current_step_name, TransitionMap(e))
       IN  Commit(e, IF next.raised
                     THEN StepFailed(executions[e], gen[e], "step_failed")
                     ELSE PauseCheck(executions[e],
                                     [gen[e] EXCEPT !.current_step_name = next.value]))

\* Mutant of AfterStepFailed: after step_timeout the run is always failed and
\* the loop is left, whatever on_failure_action is.
AfterStepFailed_TimeoutStops(e) ==
    /\ At(e, "y_step_failed") \/ At(e, "y_step_timeout")
    /\ LET step == CurrentStep(e)
           next == get_next_step(gen[e].current_step_name, TransitionMap(e))
       IN  Commit(e,
             IF step.on_failure_action = "stop" \/ At(e, "y_step_timeout")
             THEN MarkCompleted(fail(executions[e]), gen[e])
             ELSE IF step.on_failure_action = "skip"
             THEN IF next.raised
                  THEN OuterExcept(executions[e], gen[e])
                  ELSE PauseCheck(executions[e],
                                  [gen[e] EXCEPT !.current_step_name = next.value])
             ELSE PauseCheck(executions[e], gen[e]))

\* Lines 445-449 and 460-464: on_failure_action after step_timeout / step_failed
AfterStepFailed(e) ==
    /\ At(e, "y_step_failed") \/ At(e, "y_step_timeout")
    /\ LET step == CurrentStep(e)
           next == get_next_step(gen[e].current_step_name, TransitionMap(e))
       IN  Commit(e,
             IF step.on_failure_action = "stop"
             THEN MarkCompleted(fail(executions[e]), gen[e])
             ELSE IF step.on_failure_action = "skip"
             THEN IF next.raised
                  THEN OuterExcept(executions[e], gen[e])
                  ELSE PauseCheck(executions[e],
                                  [gen[e] EXCEPT !.current_step_name = next.value])
             ELSE PauseCheck(executions[e], gen[e]))

\* Lines 474-476 with 229-232: wait_for_resume.  Event.wait() returns at once
\* when the event is already set; otherwise the generator suspends.
AfterPaused(e) ==
    /\ At(e, "y_paused")
    /\ LET x == executions[e]
       IN  Commit(e, IF x.pause_event
                     THEN Segment([x EXCEPT !.pause_event = FALSE],
                                  [gen[e] EXCEPT !.pc = "y_resumed"],
                                  <<Update("resumed", gen[e].current_step_name)>>)
                     ELSE Segment(x, [gen[e] EXCEPT !.pc = "wait_for_resume"], <<>>))

\* Lines 231-232, 476: woken by _pause_event.set()
Wake(e) ==
    /\ At(e, "wait_for_resume")
    /\ executions[e].pause_event
    /\ Commit(e, Segment([executions[e] EXCEPT !.pause_event = FALSE],
                          [gen[e] EXCEPT !.pc = "y_resumed"],
                          <<Update("resumed", gen[e].current_step_name)>>))

\* Line 481 back to 366
AfterResumed(e) ==
    /\ At(e, "y_resumed")
    /\ Commit(e, LoopTop(executions[e], gen[e]))

\* Lines 491 / 500, 502-505: the generator ends
Finish(e) ==
    /\ At(e, "y_completed") \/ At(e, "y_error")
    /\ gen' = [gen EXCEPT ![e].pc = "done"]
    /\ UNCHANGED <<executions, events, history, workflows, returned, registered>>

(***************************************************************************)
(* Calls made by other tasks while the generator is suspended              *)
(***************************************************************************)
\* executions.get(execution_id), then the method if the execution exists
Signalled(e, method(_)) ==
    IF e \in DOMAIN executions
    THEN [executions EXCEPT ![e] = method(@)] ELSE executions

Called(e, call) ==
    IF e \in DOMAIN executions
    THEN [history EXCEPT ![e] = RecordCall(@, call, gen[e].pc)] ELSE history

\* Mutant of pause_execution: once the execution asked for exists, every
\* execution of the engine is paused.
pause_execution_All(e) ==
    /\ executions' = IF e \in DOMAIN executions
                     THEN [o \in DOMAIN executions |-> pause(executions[o])]
                     ELSE executions
    /\ history' = Called(e, "pause")
    /\ UNCHANGED <<gen, events, workflows, returned, registered>>

\* WorkflowEngine.pause_execution
pause_execution(e) ==
    /\ executions' = Signalled(e, pause)
    /\ history' = Called(e, "pause")
    /\ UNCHANGED <<gen, events, workflows, returned, registered>>

\* WorkflowEngine.resume_execution
resume_execution(e) ==
    /\ executions' = Signalled(e, resume)
    /\ history' = Called(e, "resume")
    /\ UNCHANGED <<gen, events, workflows, returned, registered>>

\* WorkflowEngine.cancel_execution
cancel_execution(e) ==
    /\ executions' = Signalled(e, cancel)
    /\ history' = Called(e, "cancel")
    /\ UNCHANGED <<gen, events, workflows, returned, registered>>

\* What handle_interrupt returns (raised = None) or raises; calls is FALSE
\* as long as it was never called
Result(success, status, error) ==
    [calls |-> TRUE, success |-> success, status |-> status, error |-> error,
     context |-> None, raised |-> None]

Raised(exception) ==
    [calls |-> TRUE, success |-> FALSE, status |-> None, error |-> None,
     context |-> None, raised |-> exception]

NoResult == [Result(FALSE, None, None) EXCEPT !.calls = FALSE]

\* register_workflow was never called
NoneRegistered == [last |-> EmptyDict, replaced |-> {}]

(***************************************************************************)
(* Specification                                                           *)
(***************************************************************************)
NewFrame(workflow) ==
    [pc |-> "new", workflow |-> workflow, input_data |-> EmptyDict,
     shared_state |-> EmptyDict, current_step_name |-> None, attempt |-> 0, output |-> EmptyDict, iter |-> 0]

Init ==
    /\ executions = EmptyDict
    /\ \E w \in Workflows, input_data \in InputData :
          /\ input_data # EmptyDict => w \in Schemas
          /\ gen = [e \in Started |-> [NewFrame(w) EXCEPT !.input_data = input_data]]
    /\ events = [e \in Started |-> <<>>]
    /\ history = [e \in Started |-> NewHistory]
    /\ workflows = EmptyDict
    /\ returned = NoResult
    /\ registered = NoneRegistered

Next ==
    \E e \in RunIds :
        \/ Execute(e)
        \/ AfterInvalid(e)
        \/ AfterStarted(e)
        \/ Break(e)
        \/ AfterStepSkipped(e)
        \/ AfterStepStarted(e)
        \/ ExecuteReturns(e)
        \/ ExecuteRaises(e)
        \/ BackoffDone(e)
        \/ Deadline(e)
        \/ AfterStepCompleted(e)
        \/ AfterStepFailed(e)
        \/ AfterPaused(e)
        \/ Wake(e)
        \/ AfterResumed(e)
        \/ Finish(e)
        \/ pause_execution(e)
        \/ resume_execution(e)
        \/ cancel_execution(e)

Spec == Init /\ [][Next]_vars

(***************************************************************************)
(* Two runs on one engine: execute() is called for r1 and for r2, and the  *)
(* two generators and the callers of pause / resume / cancel interleave.   *)
(***************************************************************************)
\* The definitions of the two runs: one step, whose skill returns or raises
PairWorkflows ==
    { WorkflowDefinition(<<StepDefinition("A", "ok", "always", None, 3)>>, <<>>),
      WorkflowDefinition(<<StepDefinition("A", "fail", "always", "stop", 3)>>, <<>>) }

\* The definition of the first of the two runs
PairFirst == WorkflowDefinition(<<StepDefinition("A", "ok", "always", None, 3)>>, <<>>)

PairInit ==
    /\ executions = EmptyDict
    /\ \E w \in PairWorkflows :
          gen = [e \in RunIds |-> NewFrame(IF e = "r1" THEN w ELSE PairFirst)]
    /\ events = [e \in RunIds |-> <<>>]
    /\ history = [e \in RunIds |-> NewHistory]
    /\ workflows = EmptyDict
    /\ returned = NoResult
    /\ registered = NoneRegistered

\* One segment of the generator of run e
GeneratorStep(e) ==
    \/ Execute(e)
    \/ AfterStarted(e)
    \/ Break(e)
    \/ AfterStepStarted(e)
    \/ ExecuteReturns(e)
    \/ ExecuteRaises(e)
    \/ BackoffDone(e)
    \/ AfterStepCompleted(e)
    \/ AfterStepFailed(e)
    \/ AfterPaused(e)
    \/ Wake(e)
    \/ AfterResumed(e)
    \/ Finish(e)

PairNext ==
    \E e \in RunIds :
        \/ GeneratorStep(e)
        \/ pause_execution(e)
        \/ resume_execution(e)
        \/ cancel_execution(e)

PairSpec == PairInit /\ [][PairNext]_vars

(***************************************************************************)
(* Runs of one step with a custom condition: execute() is called with a    *)
(* definition whose step carries a condition_expression and with an        *)
(* initial_state that carries a shared_state, and runs to its end.         *)
(***************************************************************************)
CondKeys == {"tier", "missing"}

CondValues == {"gold", "x", "None", "a==b"}

\* state.K == "V" and state.K != "V"
Comparison(K, op, V) == Cat(<<"state.", K, " ", op, " ", "\"", V, "\"">>)

\* Expressions outside the grammar: without an operator, with "=" for an
\* operator, with a list that is not closed, without a key
Unparsable ==
    { Cat(<<"state.", "tier">>),
      Cat(<<"state.", "tier", " ", "=", " ", "\"", "gold", "\"">>),
      Cat(<<"state.", "tier", " in ", "[">>),
      Cat(<<"==", " ", "\"", "None", "\"">>) }

Expressions ==
    { Comparison(K, op, V) : K \in CondKeys, op \in {"==", "!="}, V \in CondValues }
    \cup Unparsable

\* initial_state["shared_state"] of a run
SharedStates ==
    {EmptyDict, Put(EmptyDict, "tier", "gold"), Put(EmptyDict, "tier", "silver")}

\* One step, executed if its condition_expression holds
Custom ==
    { WorkflowDefinition(
        <<[StepDefinition("A", "ok", "custom", None, 3)
              EXCEPT !.condition_expression = expression]>>, <<>>) :
        expression \in Expressions }

CondInit ==
    /\ executions = EmptyDict
    /\ \E w \in Custom, shared_state \in SharedStates :
          gen = [e \in Started |-> [NewFrame(w) EXCEPT !.shared_state = shared_state]]
    /\ events = [e \in Started |-> <<>>]
    /\ history = [e \in Started |-> NewHistory]
    /\ workflows = EmptyDict
    /\ returned = NoResult
    /\ registered = NoneRegistered

CondNext ==
    \E e \in Started :
        \/ Execute(e)
        \/ AfterStarted(e)
        \/ AfterStepSkipped(e)
        \/ AfterStepStarted(e)
        \/ ExecuteReturns(e)
        \/ AfterStepCompleted(e)
        \/ Finish(e)

CondSpec == CondInit /\ [][CondNext]_vars

(***************************************************************************)
(* AgentOrchestrator (agent.py): the table of registered definitions, the  *)
(* start of a run by name and handle_interrupt, on top of the engine.      *)
(***************************************************************************)
\* The definitions callers register: two under the name "p", one of them
\* with a skill that always raises, and an invalid one under the name "q".
Registrable ==
    { [WorkflowDefinition(<<StepDefinition("A", "ok", "always", None, 3)>>, <<>>)
          EXCEPT !.name = "p"],
      [WorkflowDefinition(<<StepDefinition("A", "fail", "always", "stop", 3)>>, <<>>)
          EXCEPT !.name = "p"],
      [WorkflowDefinition(<<StepDefinition("A", "nonexistent", "always", None, 3)>>, <<>>)
          EXCEPT !.name = "q"] }

WorkflowNames == {"p", "q", "r"}

\* The action and data arguments of handle_interrupt
InterruptActions == {"pause", "resume", "cancel", "takeover", "update_state", "noop"}

\* data: None and {} take the same branches (`if data:`), so the empty dict
\* stands for both
InterruptData == {EmptyDict, Put(EmptyDict, "tier", "gold")}

\* Mutant of register_workflow: a name that is already registered keeps its
\* first definition (setdefault instead of assignment).
register_workflow_KeepFirst(table, w) ==
    IF w.name \in DOMAIN table THEN table ELSE Put(table, w.name, w)

\* AgentOrchestrator.register_workflow: self._workflows[workflow.name] = workflow
register_workflow(table, w) == Put(table, w.name, w)

\* A call of register_workflow
Register(w) ==
    /\ workflows' = register_workflow(workflows, w)
    /\ registered' =
          [last |-> Put(registered.last, w.name, w),
           replaced |-> IF w.name \in DOMAIN registered.last
                           /\ registered.last[w.name] # w
                        THEN registered.replaced \cup {registered.last[w.name]}
                        ELSE registered.replaced]
    /\ UNCHANGED <<executions, gen, events, history, returned>>

\* AgentOrchestrator.execute_workflow up to its first yield: the lookup by
\* name, a fresh execution id, and the first segment of engine.execute (lines
\* 327-359).  An unknown name yields an error to the caller and changes
\* nothing.
execute_workflow(e, workflow_name) ==
    IF workflow_name \notin DOMAIN workflows
    THEN UNCHANGED vars
    ELSE /\ e \notin DOMAIN gen
         /\ LET workflow == workflows[workflow_name]
                errors == validate_definition(workflow)
            IN  IF errors # <<>>
                THEN /\ gen' = Put(gen, e, [NewFrame(workflow) EXCEPT
                                              !.pc = "y_error_invalid"])
                     /\ events' = Put(events, e, <<ErrorUpdate(errors)>>)
                     /\ UNCHANGED executions
                ELSE /\ gen' = Put(gen, e, [NewFrame(workflow) EXCEPT
                                              !.pc = "y_started"])
                     /\ events' = Put(events, e, <<Update("started", None)>>)
                     /\ executions' = Put(executions, e, start(NewExecution))
         /\ history' = Put(history, e,
                           [NewHistory EXCEPT
                               !.replaced_before = registered.replaced,
                               !.started_with = {registered.last[workflow_name]}])
         /\ UNCHANGED <<workflows, returned, registered>>

\* for key, value in data.items(): context.set_state(key, value)
RECURSIVE set_states(_, _, _)
set_states(context, data, keys) ==
    IF keys = {} THEN context
    ELSE LET key == CHOOSE k \in keys : TRUE
         IN  set_states(set_state(context, key, data[key]), data, keys \ {key})

\* AgentOrchestrator.handle_interrupt.  "takeover" calls
\* execution.pause("manual_takeover"); WorkflowExecution.pause takes no
\* argument, so the call raises TypeError before anything is changed.
handle_interrupt(e, action, data) ==
    IF e \notin DOMAIN executions
    THEN /\ returned' = Result(FALSE, None, "Execution not found")
         /\ UNCHANGED <<executions, gen, events, history, workflows, registered>>
    ELSE CASE action = "pause" ->
                /\ executions' = Signalled(e, pause)
                /\ history' = Called(e, "pause")
                /\ returned' = Result(TRUE, "paused", None)
                /\ UNCHANGED <<gen, events, workflows, registered>>
           [] action = "resume" ->
                /\ executions' = Signalled(e, resume)
                /\ history' = Called(e, "resume")
                /\ returned' = Result(TRUE, "resumed", None)
                /\ UNCHANGED <<gen, events, workflows, registered>>
           [] action = "cancel" ->
                /\ executions' = Signalled(e, cancel)
                /\ history' = Called(e, "cancel")
                /\ returned' = Result(TRUE, "cancelled", None)
                /\ UNCHANGED <<gen, events, workflows, registered>>
           [] action = "takeover" ->
                /\ returned' = Raised("TypeError")
                /\ UNCHANGED <<executions, gen, events, history, workflows, registered>>
           [] action = "update_state" ->
                /\ executions' =
                      IF DOMAIN data # {}
                      THEN [executions EXCEPT ![e].context =
                                set_states(@, data, DOMAIN data)]
                      ELSE executions
                /\ returned' = Result(TRUE, None, None)
                /\ UNCHANGED <<gen, events, history, workflows, registered>>
           [] OTHER ->
                /\ returned' = Result(FALSE, None, "Unknown action")
                /\ UNCHANGED <<executions, gen, events, history, workflows, registered>>

\* A fresh orchestrator: no definition, no run
OrchInit ==
    /\ executions = EmptyDict
    /\ gen = EmptyDict
    /\ events = EmptyDict
    /\ history = EmptyDict
    /\ workflows = EmptyDict
    /\ returned = NoResult
    /\ registered = NoneRegistered

OrchNext ==
    \/ \E w \in Registrable : Register(w)
    \/ \E e \in Started, name \in WorkflowNames : execute_workflow(e, name)
    \/ \E e \in RunIds, action \in InterruptActions, data \in InterruptData :
          handle_interrupt(e, action, data)
    \/ \E e \in Started :
          \/ AfterInvalid(e)
          \/ AfterStarted(e)
          \/ Break(e)
          \/ AfterStepStarted(e)
          \/ ExecuteReturns(e)
          \/ ExecuteRaises(e)
          \/ BackoffDone(e)
          \/ AfterStepCompleted(e)
          \/ AfterStepFailed(e)
          \/ AfterPaused(e)
          \/ Wake(e)
          \/ AfterResumed(e)
          \/ Finish(e)
          \/ pause_execution(e)
          \/ resume_execution(e)
          \/ cancel_execution(e)

OrchSpec == OrchInit /\ [][OrchNext]_vars

(***************************************************************************)
(* Properties                                                              *)
(***************************************************************************)
IsPrefix(s, t) == Len(s) <= Len(t) /\ \A i \in 1..Len(s) : s[i] = t[i]

Emitted(e, type, step) ==
    \E i \in 1..Len(events[e]) :
        events[e][i].type = type /\ events[e][i].step = step

Count(e, type, step) ==
    Cardinality({i \in 1..Len(events[e]) :
                    events[e][i].type = type /\ events[e][i].step = step})

Outcomes == {"step_completed", "step_failed", "step_timeout"}

\* The pipeline A -> B -> C of the scenarios: B's skill and on_failure_action
\* vary, everything else is the StepDefinition default.
LinearABC(skB, ofB) ==
    WorkflowDefinition(
        <<StepDefinition("A", "ok", "always", None, 3),
          StepDefinition("B", skB, "always", ofB, 3),
          StepDefinition("C", "ok", "always", None, 3)>>,
        <<Transition("A", "B"), Transition("B", "C")>>)

Runs(workflow) == {e \in DOMAIN gen : gen[e].workflow = workflow}

\* C1: with steps A, B, C, unconditional transitions A->B and B->C, condition
\* "always", skills that all succeed and no pause or cancel call, the updates
\* of the run are exactly started, step_started(A), step_completed(A),
\* step_started(B), step_completed(B), step_started(C), step_completed(C),
\* completed: at every moment a prefix of that list, and the whole list once
\* the generator has ended.
C1_Expected ==
    <<Update("started", None),
      Update("step_started", "A"), Update("step_completed", "A"),
      Update("step_started", "B"), Update("step_completed", "B"),
      Update("step_started", "C"), Update("step_completed", "C"),
      Update("completed", None)>>

C1_LinearSuccess ==
    \A e \in Runs(LinearABC("ok", None)) :
        ~history[e].signalled =>
            /\ IsPrefix(events[e], C1_Expected)
            /\ gen[e].pc = "done" => events[e] = C1_Expected

\* The list of updates is a prefix of `expected`, or `expected` followed by
\* one more update that ends the run
EndsAs(e, expected) ==
    \/ IsPrefix(events[e], expected)
    \/ /\ Len(events[e]) = Len(expected) + 1
       /\ SubSeq(events[e], 1, Len(expected)) = expected
       /\ Last(events[e]).type \in {"completed", "error", "cancelled"}

\* C2: in A -> B -> C where B has on_failure_action = "stop" and B's skill
\* always raises, the updates end with step_started(B), step_failed(B) after
\* A's successful step, no step_started(C) is ever emitted, and the status of
\* the run is FAILED once the generator has ended.
C2_StopOnFailure ==
    \A e \in Runs(LinearABC("fail", "stop")) :
        ~history[e].signalled =>
            /\ EndsAs(e, <<Update("started", None),
                           Update("step_started", "A"), Update("step_completed", "A"),
                           Update("step_started", "B"), Update("step_failed", "B")>>)
            /\ ~Emitted(e, "step_started", "C")
            /\ gen[e].pc = "done" => executions[e].status = FAILED

\* C3: in A -> B -> C where B has on_failure_action = "skip" and B's skill
\* always raises, C is still executed and the run ends with the completed
\* update and status COMPLETED, B in failed_steps and C in completed_steps.
C3_SkipOnFailure ==
    \A e \in Runs(LinearABC("fail", "skip")) :
        ~history[e].signalled =>
            /\ IsPrefix(events[e],
                        <<Update("started", None),
                          Update("step_started", "A"), Update("step_completed", "A"),
                          Update("step_started", "B"), Update("step_failed", "B"),
                          Update("step_started", "C"), Update("step_completed", "C"),
                          Update("completed", None)>>)
            /\ gen[e].pc = "done" =>
                  /\ executions[e].status = COMPLETED
                  /\ Last(events[e]).type = "completed"
                  /\ "B" \in Range(executions[e].failed_steps)
                  /\ "C" \in Range(executions[e].completed_steps)

\* C4: "completed" is emitted only on a normal exit of the step loop: never
\* after a "cancelled" update, never after a step failed or timed out with
\* on_failure_action = "stop", never after the engine's own "error" update.
StopFailureAt(e, i) ==
    /\ events[e][i].type \in {"step_failed", "step_timeout"}
    /\ step_map(gen[e].workflow)[events[e][i].step].on_failure_action = "stop"

C4_CompletedOnlyOnNormalExit ==
    \A e \in DOMAIN events :
        \A j \in 1..Len(events[e]) :
            events[e][j].type = "completed" =>
                \A i \in 1..(j - 1) :
                    /\ events[e][i].type \notin {"cancelled", "error"}
                    /\ ~StopFailureAt(e, i)

\* C5: once the status of a run is COMPLETED, FAILED or CANCELLED it never
\* changes again, and it never returns to PENDING, whatever the engine and
\* the callers of pause / resume / cancel do.
Terminal == {COMPLETED, FAILED, CANCELLED}

C5_TerminalStatusIsFinal ==
    [][\A e \in DOMAIN executions :
          /\ executions[e].status \in Terminal
                => executions'[e].status = executions[e].status
          /\ executions'[e].status # PENDING]_vars

\* C6: for a step whose skill always fails, execute() is attempted exactly
\* max_retries + 1 times in the run (max_retries of the StepDefinition) and
\* exactly one step_failed update is emitted for the step.
AlwaysFails(step) == SkillRegistry[step.skill_name].attempt = {"raise"}

C6_RetryBound ==
    \A e \in DOMAIN executions :
        \A i \in 1..Len(gen[e].workflow.steps) :
            LET step == gen[e].workflow.steps[i]
            IN  AlwaysFails(step) =>
                  /\ history[e].execute_calls[step.name] <= step.max_retries + 1
                  /\ Count(e, "step_failed", step.name) <= 1
                  /\ Emitted(e, "step_failed", step.name) =>
                        history[e].execute_calls[step.name] = step.max_retries + 1

\* The unit of work of the current step is in flight
InUnit(e) == gen[e].pc \in {"execute", "sleep"}

C8_InvalidDefinitionFailsFast ==
    \A e \in DOMAIN gen :
        LET errors == validate_definition(gen[e].workflow)
        IN  (errors # <<>> /\ gen[e].pc # "new") =>
              /\ events[e] = <<ErrorUpdate(errors)>>
              /\ e \notin DOMAIN executions
              /\ gen[e].pc \in {"y_error_invalid", "done"}
              /\ \A n \in StepNames : history[e].execute_calls[n] = 0

\* Witness of C8: execute has run to its end on a definition with an
\* unregistered skill_name.
C8_Witness ==
    \E e \in DOMAIN gen :
        /\ gen[e].pc = "done"
        /\ \E i \in 1..Len(gen[e].workflow.steps) :
              ~Registered(gen[e].workflow.steps[i].skill_name)
        /\ Len(events[e]) = 1

\* C9: the status of a run equals the status of its ExecutionContext in
\* every state.  PENDING and CANCELLED, for which the context has no value,
\* are left aside here.
C9_StatusEqualsContextStatus ==
    \A e \in DOMAIN executions :
        executions[e].status \in {RUNNING, PAUSED, COMPLETED, FAILED} =>
            executions[e].context.status = executions[e].status

\* C10: after the paused update the generator yields nothing until resume is
\* called; a resume called before that pause does not count.
C10_BlocksUntilResumed ==
    [][\A e \in DOMAIN events :
          (events[e] # <<>> /\ Last(events[e]).type = "paused"
             /\ events'[e] # events[e]) => history[e].resume_called]_vars

\* C11: a cancel called after "started" and before the final update of the
\* run is reported by a cancelled update and never by an error update, also
\* when it arrives during the last step; so a run whose generator has ended
\* after such a call has emitted cancelled, and no error.
C11_CancelReported ==
    \A e \in DOMAIN executions :
        (history[e].cancel_live /\ gen[e].pc = "done") =>
            /\ Emitted(e, "cancelled", None)
            /\ ~Emitted(e, "error", None)

\* The three conditions of C12 on a definition, with the names a transition
\* may use besides the declared step names given by `sentinels`
WellFormed(workflow, sentinels) ==
    LET steps == workflow.steps
        transitions == workflow.transitions
        declared == {steps[i].name : i \in 1..Len(steps)}
    IN  /\ \A i \in 1..Len(steps) : Registered(steps[i].skill_name)
        /\ \A i, j \in 1..Len(steps) : i # j => steps[i].name # steps[j].name
        /\ \A k \in 1..Len(transitions) :
              /\ transitions[k].from_step \in declared \cup sentinels
              /\ transitions[k].to_step \in declared \cup sentinels

\* execute() has validated the definition of run e and found no error
Accepted(e) == gen[e].pc # "new" /\ e \in DOMAIN executions

C13_ContextStatusIsFinal ==
    [][\A e \in DOMAIN executions :
          executions[e].context.status \in {"completed", "failed"}
              => executions'[e].context.status = executions[e].context.status]_vars

\* The table holds, under every name, exactly the definition the name was
\* registered with last, and every run started by name runs the definition
\* that was the last one registered under the name when it was started
LatestWins ==
    /\ workflows = registered.last
    /\ \A n \in DOMAIN workflows : workflows[n].name = n
    /\ \A e \in DOMAIN gen : gen[e].workflow \in history[e].started_with

\* C14 as claimed: register_workflow validates the definition, so that only
\* definitions without validation errors are stored, and stores it under its
\* name, replacing the definition that name had; a later start of the name
\* runs the definition registered last.
C14_ValidatesAndOverwrites ==
    /\ LatestWins
    /\ \A n \in DOMAIN workflows : validate_definition(workflows[n]) = <<>>

\* C14 as amended: register_workflow stores the definition under its name
\* without validating it, replacing the definition that name had: the name
\* then has exactly one definition, the one registered last, and a later
\* start of the name runs that one.
C14_Overwrites == LatestWins

\* Witness of C14: a run was started after a definition named "p" had been
\* replaced by another one, and it runs the one stored last
C14_Witness ==
    \E e \in DOMAIN gen :
        /\ gen[e].workflow.name = "p"
        /\ history[e].replaced_before # {}
        /\ gen[e].workflow \notin history[e].replaced_before
        /\ gen[e].pc = "done"

\* C15: handle_interrupt(e, "takeover", data) on a run that is running or
\* paused does not raise: it returns a success result with status "paused"
\* and the full context, the run and its context are paused,
\* shared_state["manual_takeover"] is true and every key of data is in
\* shared_state with its value.
C15_TakeoverPauses ==
    [][\A e \in DOMAIN executions, data \in InterruptData :
          (executions[e].status \in {RUNNING, PAUSED}
             /\ handle_interrupt(e, "takeover", data)) =>
              /\ returned'.raised = None
              /\ returned'.success
              /\ returned'.status = "paused"
              /\ executions'[e].status = PAUSED
              /\ executions'[e].context.status = "paused"
              /\ "manual_takeover" \in DOMAIN executions'[e].context.shared_state
              /\ executions'[e].context.shared_state["manual_takeover"] = TRUE
              /\ \A k \in DOMAIN data :
                    /\ k \in DOMAIN executions'[e].context.shared_state
                    /\ executions'[e].context.shared_state[k] = data[k]
              /\ returned'.context = executions'[e].context]_vars

\* A call of pause_execution, resume_execution or cancel_execution for e
Signal(e) == pause_execution(e) \/ resume_execution(e) \/ cancel_execution(e)

\* The generator of run e is suspended at a point it leaves on its own
Runnable(e) ==
    e \in DOMAIN gen /\ gen[e].pc \notin {"wait_for_resume", "done"}

\* C16: a call of pause, resume or cancel for run e changes no other run
\* (status, step lists, context, cancellation flag, resume signal, position
\* and updates of its generator) and creates no run; for an unknown e it
\* changes nothing at all; executions are created by execute() only; and
\* while one run is blocked waiting for resume, every other run that has not
\* ended can take its next step.
C16_SignalsTouchOneRun ==
    [][/\ \A e \in RunIds :
             Signal(e) =>
                 /\ DOMAIN executions' = DOMAIN executions
                 /\ \A o \in DOMAIN executions \ {e} :
                       executions'[o] = executions[o]
                 /\ gen' = gen /\ events' = events
                 /\ e \notin DOMAIN executions => executions' = executions
       /\ DOMAIN executions' # DOMAIN executions => \E e \in RunIds : Execute(e)
       /\ \A e, o \in RunIds :
             (e # o /\ At(o, "wait_for_resume") /\ Runnable(e))
                 => ENABLED GeneratorStep(e)]_vars

\* Witness of C16: one run is blocked waiting for resume after a pause, the
\* other run was neither paused nor cancelled and has run to its end
C16_Witness ==
    \E e, o \in DOMAIN executions :
        /\ e # o
        /\ At(o, "wait_for_resume")
        /\ executions[o].status = PAUSED
        /\ ~history[e].signalled
        /\ gen[e].pc = "done"
        /\ executions[e].status = COMPLETED

\* C17: every step_completed, step_failed or step_timeout update for a step
\* S is preceded by a step_started(S) with, between the two, no other
\* outcome update, no other step_started and no update of another step; so
\* each step_started is followed by at most one outcome update.
C17_OneOutcomePerStart ==
    \A e \in DOMAIN events :
        \A j \in 1..Len(events[e]) :
            events[e][j].type \in Outcomes =>
                \E i \in 1..(j - 1) :
                    /\ events[e][i] = Update("step_started", events[e][j].step)
                    /\ \A k \in (i + 1)..(j - 1) :
                          /\ events[e][k].type \notin Outcomes \cup {"step_started"}
                          /\ events[e][k].step \in {None, events[e][j].step}

\* The skill class of step n in the definition of run e
SkillOf(e, n) == SkillRegistry[step_map(gen[e].workflow)[n].skill_name]

\* C18: when a field that the input_schema of the skill marks required is
\* absent from context.input_data, run() fails before anything else: the
\* segment that enters run() leaves the whole context unchanged (no on_start,
\* no step_history entry, same status), calls execute zero times, does not
\* sleep, and ends at the step_failed update of the step.
C18_InvalidInputFailsFirst ==
    [][\A e \in DOMAIN executions :
          (/\ At(e, "y_step_started")
           /\ gen'[e] # gen[e]
           /\ \E field \in DOMAIN SkillOf(e, gen[e].current_step_name).input_schema :
                 /\ SkillOf(e, gen[e].current_step_name).input_schema[field].required
                 /\ field \notin DOMAIN executions[e].context.input_data)
          => /\ executions'[e].context = executions[e].context
             /\ history'[e].execute_calls = history[e].execute_calls
             /\ gen'[e].pc = "y_step_failed"
             /\ Last(events'[e]) = Update("step_failed", gen[e].current_step_name)]_vars

\* Witness of C18: the step of a skill that requires "query" has failed on
\* an input without it, with an empty step_history and no call of execute
C18_Witness ==
    \E e \in DOMAIN executions :
        /\ gen[e].pc = "y_step_failed"
        /\ step_map(gen[e].workflow)[gen[e].current_step_name].skill_name = "needy"
        /\ "query" \notin DOMAIN executions[e].context.input_data
        /\ executions[e].context.step_history = <<>>
        /\ history[e].execute_calls[gen[e].current_step_name] = 0

\* The output has every field the output_schema of the skill marks required
Complete(skill, output) ==
    \A field \in DOMAIN skill.output_schema :
        skill.output_schema[field].required => field \in DOMAIN output

\* C19: an output of execute that lacks a required field of the
\* output_schema is never returned as a success: a step is reported
\* completed only with a complete output, which is the one stored, and
\* on_success has run once per step_completed; and it counts as a failed
\* attempt like a raise: a step whose skill returns only such outputs is
\* never completed, and each of its step_failed updates comes after exactly
\* retry_count + 1 calls of execute, the last one being attempt retry_count.
C19_InvalidOutputIsAFailure ==
    \A e \in DOMAIN executions :
        LET x == executions[e]
            g == gen[e]
            n == g.current_step_name
            successes == {i \in 1..Len(x.context.step_history) :
                             x.context.step_history[i][2] = "success"}
            completions == {j \in 1..Len(events[e]) :
                               events[e][j].type = "step_completed"}
        IN  /\ g.pc = "y_step_completed" =>
                  /\ Complete(SkillOf(e, n), g.output)
                  /\ x.context.output_data[n] = g.output
            /\ Cardinality(successes) = Cardinality(completions)
            /\ (n # None /\ \A o \in SkillOf(e, n).outputs : ~Complete(SkillOf(e, n), o)
                          /\ SkillOf(e, n).attempt = {"return"}) =>
                  /\ completions = {}
                  /\ n \notin DOMAIN x.context.output_data
                  /\ history[e].execute_calls[n]
                        <= (SkillOf(e, n).retry_count + 1) * (Count(e, "step_failed", n) + 1)
                  /\ g.pc = "y_step_failed" =>
                        /\ g.attempt = SkillOf(e, n).retry_count
                        /\ history[e].execute_calls[n]
                              = (SkillOf(e, n).retry_count + 1) * Count(e, "step_failed", n)

\* Witness of C19: a step whose skill returns incomplete outputs only has
\* failed after its retry
C19_Witness ==
    \E e \in DOMAIN executions :
        /\ gen[e].pc = "y_step_failed"
        /\ step_map(gen[e].workflow)[gen[e].current_step_name].skill_name = "broken"
        /\ gen[e].output = Partial
        /\ history[e].execute_calls[gen[e].current_step_name] = 2
        /\ executions[e].context.step_history = <<<<"broken", "start">>, <<"broken", "failed">>>>

\* The updates that report the end of an invocation of run() that had
\* passed input validation: an outcome update right after the step_started
\* update of its step
RunEnds(e) ==
    {j \in 2..Len(events[e]) :
        /\ events[e][j].type \in Outcomes
        /\ events[e][j - 1] = Update("step_started", events[e][j].step)
        /\ validate_input(SkillOf(e, events[e][j].step).input_schema,
                          executions[e].context.input_data)}

\* C20: every invocation of run() that passes input validation and has
\* ended has appended exactly two entries to step_history, a start entry and
\* then one outcome entry, success if it returned and failed otherwise; an
\* invocation in flight has appended its start entry only.
C20_TwoEntriesPerRun ==
    \A e \in DOMAIN executions :
        LET step_history == executions[e].context.step_history
            ended == RunEnds(e)
            returned_ == {j \in ended : events[e][j].type = "step_completed"}
            Entries(kind) == {i \in 1..Len(step_history) : step_history[i][2] = kind}
        IN  /\ Len(step_history) = 2 * Cardinality(ended) + (IF InUnit(e) THEN 1 ELSE 0)
            /\ Entries("start") = {i \in 1..Len(step_history) : i % 2 = 1}
            /\ Cardinality(Entries("success")) = Cardinality(returned_)
            /\ Cardinality(Entries("failed")) = Cardinality(ended \ returned_)

\* The generator of run e is suspended right before a call of _get_next_step:
\* after step_completed, after step_skipped, or after step_failed /
\* step_timeout of a step with on_failure_action = "skip"
AtLookup(e) ==
    \/ At(e, "y_step_completed")
    \/ At(e, "y_step_skipped")
    \/ /\ At(e, "y_step_failed") \/ At(e, "y_step_timeout")
       /\ CurrentStep(e).on_failure_action = "skip"

\* The to_step of the first transition, in declaration order, that leaves
\* current_step and is unconditional or has a guard that holds; None if
\* there is none.  No transition of the definitions here carries a guard.
FirstMatch(workflow, current_step) ==
    LET leaving == SelectSeq(workflow.transitions,
                             LAMBDA t : t.from_step = current_step
                                        /\ t.condition = None)
    IN  IF leaving = <<>> THEN None ELSE leaving[1].to_step

\* C21: the transition lookup from the current step returns the to_step of
\* the first transition with that from_step whose guard holds or that has no
\* guard, and no next step if no transition matches: the lookup does not
\* raise, and the generator goes on with the step so chosen.
C21_LookupReturnsFirstMatch ==
    [][\A e \in DOMAIN gen :
          (AtLookup(e) /\ gen'[e] # gen[e]) =>
              /\ ~get_next_step(gen[e].current_step_name, TransitionMap(e)).raised
              /\ gen'[e].current_step_name
                    = FirstMatch(gen[e].workflow, gen[e].current_step_name)]_vars

\* The update i of run e reports a failure or a timeout of a step whose
\* on_failure_action is neither "skip" nor "stop"
PlainFailureAt(e, i) ==
    /\ events[e][i].type \in {"step_failed", "step_timeout"}
    /\ step_map(gen[e].workflow)[events[e][i].step].on_failure_action
          \notin {"skip", "stop"}

Final == {"completed", "cancelled", "error"}

\* C22: when a step fails by error or by timeout and its on_failure_action
\* is unset or "continue", the step loop exits at that step: no step_started
\* is emitted afterwards, neither for another step nor for the same step
\* again, and the run goes on to its final update.
C22_LoopExitsOnFailure ==
    \A e \in DOMAIN events :
        \A i \in 1..Len(events[e]) :
            PlainFailureAt(e, i) =>
                /\ \A j \in (i + 1)..Len(events[e]) :
                      events[e][j].type # "step_started"
                /\ gen[e].pc = "done" => Last(events[e]).type \in Final

\* C23: when the condition of the current step is false, the segment that
\* finds it so appends the step name to paused_steps, yields one
\* step_skipped update and nothing else, and neither creates nor executes
\* the unit of work; the next segment takes the run on to the step chosen by
\* the transition lookup from the skipped step, without an error update and
\* without ever having emitted step_started for the skipped step.
C23_SkippedStepAdvances ==
    [][\A e \in DOMAIN executions :
          /\ (gen'[e] # gen[e] /\ gen'[e].pc = "y_step_skipped") =>
                LET n == gen'[e].current_step_name
                IN  /\ ~should_execute_step(step_map(gen[e].workflow)[n], executions[e])
                    /\ executions'[e].paused_steps
                          = Append(executions[e].paused_steps, n)
                    /\ events'[e] = Append(events[e], Update("step_skipped", n))
                    /\ history'[e].execute_calls = history[e].execute_calls
                    /\ executions'[e].context = executions[e].context
          /\ (gen'[e] # gen[e] /\ At(e, "y_step_skipped")) =>
                /\ gen'[e].current_step_name
                      = FirstMatch(gen[e].workflow, gen[e].current_step_name)
                /\ gen'[e].pc # "y_error"
                /\ ~Emitted(e, "step_started", gen[e].current_step_name)]_vars

\* What the handler of a failed step does after its yield, as a function of
\* the execution x and the frame g only, the same for "except
\* asyncio.TimeoutError" and "except Exception": with "stop" the run is
\* failed and the loop is left, into "Mark as completed"; with "skip" the
\* next step is looked up, and a lookup that raises ends the run in the outer
\* handler; otherwise the step stays the current one; and unless the loop was
\* left, the pause check and the next iteration follow.
Continuation(x, g) ==
    LET step == step_map(g.workflow)[g.current_step_name]
        next == get_next_step(g.current_step_name, build_transition_map(g.workflow))
    IN  CASE step.on_failure_action = "stop" ->
                 [pc |-> "y_completed", current_step_name |-> g.current_step_name,
                  status |-> COMPLETED, context_status |-> "completed"]
          [] step.on_failure_action = "skip" /\ next.raised ->
                 [pc |-> "y_error", current_step_name |-> g.current_step_name,
                  status |-> FAILED, context_status |-> "failed"]
          [] OTHER ->
                 LET to == IF step.on_failure_action = "skip"
                           THEN next.value ELSE g.current_step_name
                     r == PauseCheck(x, [g EXCEPT !.current_step_name = to])
                 IN  [pc |-> r.g.pc, current_step_name |-> to,
                      status |-> r.x.status, context_status |-> r.x.context.status]

StrOf(e, K) ==
    IF K \in DOMAIN executions[e].context.shared_state
    THEN Text(executions[e].context.shared_state[K]) ELSE Text(None)

\* C25: for a step with a custom condition, once the condition has been
\* evaluated: the step is either skipped or started; with the expression
\* state.K == "V" it is started iff the string form of shared_state[K] is V,
\* a missing key counting as "None"; with state.K != "V" iff it is not V;
\* and with an expression that is unparsable or has none of the four
\* operators it is skipped.
C25_ConditionsEvaluateAsWritten ==
    \A e \in DOMAIN executions :
        LET step == gen[e].workflow.steps[1]
            expression == step.condition_expression
            executed == Emitted(e, "step_started", step.name)
            skipped == Emitted(e, "step_skipped", step.name)
        IN  (gen[e].pc # "y_started" /\ step.condition = "custom" /\ expression # <<>>) =>
              /\ executed # skipped
              /\ \A K \in CondKeys, V \in CondValues :
                    /\ expression = Comparison(K, "==", V) =>
                          (executed <=> StrOf(e, K) = Text(V))
                    /\ expression = Comparison(K, "!=", V) =>
                          (executed <=> StrOf(e, K) # Text(V))
              /\ expression \in Unparsable => skipped

\* The iteration of the current step has passed its step_started yield
InIteration(e) == gen[e].pc \in {"y_step_started", "execute", "sleep"}

\* C26: cancellation is observed at the top of the step loop only.  Once
\* cancel has been called for a run, the generator emits no step_started
\* any more, and it executes no unit of work except in the iteration that
\* had emitted its step_started before the call; a unit that is executing
\* is not interrupted: the generator leaves it only by the outcome of the
\* unit, and the call itself moves the generator nowhere.
C26_CancelSeenAtLoopTop ==
    [][\A e \in DOMAIN executions :
          /\ (history[e].cancel_live /\ gen'[e] # gen[e]) =>
                /\ events'[e] # events[e] => Last(events'[e]).type # "step_started"
                /\ ~InIteration(e) =>
                      history'[e].execute_calls = history[e].execute_calls
                /\ InUnit(e) =>
                      gen'[e].pc \in {"execute", "sleep", "y_step_completed",
                                      "y_step_failed", "y_step_timeout"}
          /\ cancel_execution(e) => gen'[e] = gen[e] /\ events'[e] = events[e]]_vars

\* Witness of C26: cancel was called while the unit of step A was executing;
\* the unit went on to fail, and the next iteration, on the same step,
\* reported the cancellation instead of starting the step again
C26_Witness ==
    \E e \in DOMAIN executions :
        /\ history[e].cancel_in_unit
        /\ events[e] = <<Update("started", None), Update("step_started", "A"),
                         Update("step_failed", "A"), Update("cancelled", None)>>
        /\ history[e].execute_calls["A"] = 2
        /\ ~history[e].resume_called
        /\ executions[e].paused_steps = <<>>

\* C27: no unit of work is started while the run is paused: whenever the
\* generator yields step_started, the status of the run is not PAUSED,
\* neither when the segment begins nor at the yield, whatever pause and
\* resume calls came before.
C27_NoStartWhilePaused ==
    [][\A e \in DOMAIN executions :
          (gen'[e] # gen[e] /\ gen'[e].pc = "y_step_started") =>
              /\ executions[e].status # PAUSED
              /\ executions'[e].status # PAUSED]_vars

\* The iterations of the step loop of run e that were on step n: each one
\* yields step_started(n) or step_skipped(n)
Iterations(e, n) == Count(e, "step_started", n) + Count(e, "step_skipped", n)

\* C28, on finite runs: a run over a valid definition with acyclic
\* transitions terminates for every combination of step outcomes and
\* on_failure_action values, since every iteration of the step loop ends the
\* run or goes on to a step further down the graph; so no step is the
\* current step of two iterations, and a generator that has ended has
\* emitted a final update last.  (No definition here has a cycle.)
C28_EveryIterationAdvances ==
    \A e \in DOMAIN executions :
        /\ \A n \in StepNames : Iterations(e, n) <= 1
        /\ gen[e].pc = "done" => Last(events[e]).type \in Final

\* How often n occurs in the list
Occurrences(list, n) == Cardinality({i \in 1..Len(list) : list[i] = n})

\* C29: in a run over an acyclic pipeline each step name occurs at most
\* once in completed_steps and failed_steps taken together, and a
\* step_completed update for a step is never followed by a step_failed
\* update for the same step, also when the step has outgoing transitions.
C29_CompletedOrFailedOnce ==
    \A e \in DOMAIN executions :
        \A n \in StepNames :
            /\ Occurrences(executions[e].completed_steps, n)
                  + Occurrences(executions[e].failed_steps, n) <= 1
            /\ \A i, j \in 1..Len(events[e]) :
                  (i < j /\ events[e][i] = Update("step_completed", n))
                      => events[e][j] # Update("step_failed", n)

\* C30: the segment in which step S succeeds stores the output that run()
\* returned under output_data[S] and nowhere else, appends S to
\* completed_steps and yields step_completed(S), whose payload is that same
\* output (the local `output` of the frame); every other segment of the
\* generator, those that report a failed, timed-out or skipped step among
\* them, leaves output_data as it is, and so does every call of pause,
\* resume and cancel.
C30_OutputStoredUnderStepName ==
    [][\A e \in DOMAIN executions :
          LET x == executions[e]
              n == gen[e].current_step_name
          IN  IF gen'[e] # gen[e] /\ gen'[e].pc = "y_step_completed"
              THEN /\ gen'[e].output \in SkillOf(e, n).outputs
                   /\ executions'[e].context.output_data
                         = Put(x.context.output_data, n, gen'[e].output)
                   /\ executions'[e].completed_steps = Append(x.completed_steps, n)
                   /\ events'[e] = Append(events[e], Update("step_completed", n))
              ELSE /\ executions'[e].context.output_data = x.context.output_data
                   /\ executions'[e].completed_steps = x.completed_steps]_vars

\* Witness of C30: the first attempt of step A returned an output that was
\* rejected and stored nothing, the second one succeeded, and its output is
\* what output_data holds for A
C30_Witness ==
    \E e \in DOMAIN executions :
        /\ gen[e].pc = "y_step_completed"
        /\ step_map(gen[e].workflow)["A"].skill_name = "sloppy"
        /\ history[e].execute_calls["A"] = 2
        /\ executions[e].context.output_data = Put(EmptyDict, "A", Output("sloppy"))
        /\ executions[e].completed_steps = <<"A">>
        /\ executions[e].failed_steps = <<>>

====
